---- MODULE Spec2Model ----
(***************************************************************************)
(* repo-to-docx: the repository aggregator (code_convert.py), the          *)
(* Markdown renderer with its code-block highlighter (md_to_word.py) and   *)
(* the pipeline joining them (convert_repo_to_word.py).                    *)
(*                                                                         *)
(* Text is a sequence of characters; a character is a one-element atom.    *)
(* The backquote cannot be written inside a TLA+ string, so the atom BQ    *)
(* stands for it.                                                          *)
(***************************************************************************)
EXTENDS Naturals, Sequences, FiniteSets, TLC

VARIABLES
    rootKind,              \* what repo_path references: "dir", "file", "missing"
    tree,                  \* the directory tree: file path -> file content
    excluded_extensions,   \* create_markdown_from_repo's argument
    excluded_directories,  \* create_markdown_from_repo's argument
    stack,                 \* os.walk: directories still to list, next first
    visited,               \* the directories os.walk has yielded as root
    processed,             \* the "Processing <file_path>..." log, in order
    markdown_lines,        \* create_markdown_from_repo's local list
    markdown_content,      \* the string create_markdown_from_repo returned
    temp_md,               \* the file temp_output.md: its text, or NoFile
    output_docx,           \* the file output.docx: the saved document, or NoFile
    guessable,             \* whether guess_lexer finds a lexer in this run
    lines,                 \* convert_markdown_to_docx: f.readlines()
    idx,                   \* convert_markdown_to_docx: lines consumed so far
    in_code_block,         \* convert_markdown_to_docx's local
    code_language,         \* convert_markdown_to_docx's local
    code_buffer,           \* convert_markdown_to_docx's local
    code_text,             \* _highlight_code_paragraph's argument
    lexer,                 \* _highlight_code_paragraph's local: how it was bound
    pending,               \* lexer.get_tokens: the text not yet yielded
    doc,                   \* the python-docx Document: its body, in order
    pc                     \* where the program is

walkVars == <<rootKind, tree, excluded_extensions, excluded_directories,
              stack, visited, processed, markdown_lines, markdown_content>>
fileVars == <<temp_md, output_docx>>
renderVars == <<guessable, lines, idx, in_code_block, code_language,
                code_buffer, code_text, lexer, pending, doc>>
vars == <<walkVars, fileVars, renderVars, pc>>

(***************************************************************************)
(* Characters and text                                                     *)
(***************************************************************************)
NL == "\n"
BQ == "BQ"
BOM == "BOM"
NoFile == "NoFile"
NoText == "NoText"

Fence == <<BQ, BQ, BQ>>

RECURSIVE Concat(_)
Concat(ss) == IF ss = <<>> THEN <<>> ELSE Head(ss) \o Concat(Tail(ss))

\* sep.join(parts)
RECURSIVE Join(_, _)
Join(sep, parts) ==
    IF parts = <<>> THEN <<>>
    ELSE IF Len(parts) = 1 THEN parts[1]
    ELSE parts[1] \o sep \o Join(sep, Tail(parts))

\* "\n".join(parts)
JoinNL(parts) == Join(<<NL>>, parts)

Range(s) == {s[i] : i \in DOMAIN s}

Perms(S) == {p \in [1..Cardinality(S) -> S] : Range(p) = S}

StartsWith(t, p) == Len(t) >= Len(p) /\ SubSeq(t, 1, Len(p)) = p

\* str.lower(), on the letters the model uses
Lower(c) == CASE c = "A" -> "a"
              [] c = "P" -> "p"
              [] c = "Y" -> "y"
              [] OTHER -> c
LowerText(t) == [i \in DOMAIN t |-> Lower(t[i])]

(***************************************************************************)
(* code_convert.py                                                         *)
(***************************************************************************)
\* os.path.splitext(file_name)[1]: from the last dot on, unless only dots
\* precede it
splitext(name) ==
    LET dots == {i \in DOMAIN name : name[i] = "."}
        last == CHOOSE i \in dots : \A j \in dots : j <= i
    IN  IF dots = {} THEN <<>>
        ELSE IF \E j \in 1..(last - 1) : name[j] # "."
             THEN SubSeq(name, last, Len(name))
             ELSE <<>>

extension_map ==
    { << <<".", "p", "y">>,           <<"p", "y", "t", "h", "o", "n">> >>,
      << <<".", "j", "s">>,           <<"j", "a", "v", "a", "s", "c", "r", "i", "p", "t">> >>,
      << <<".", "c", "j", "s">>,      <<"j", "a", "v", "a", "s", "c", "r", "i", "p", "t">> >>,
      << <<".", "t", "s">>,           <<"t", "y", "p", "e", "s", "c", "r", "i", "p", "t">> >>,
      << <<".", "t", "s", "x">>,      <<"t", "s", "x">> >>,
      << <<".", "j", "s", "x">>,      <<"j", "s", "x">> >>,
      << <<".", "j", "a", "v", "a">>, <<"j", "a", "v", "a">> >>,
      << <<".", "c">>,                <<"c">> >>,
      << <<".", "c", "p", "p">>,      <<"c", "p", "p">> >>,
      << <<".", "s", "h">>,           <<"b", "a", "s", "h">> >>,
      << <<".", "h", "t", "m", "l">>, <<"h", "t", "m", "l">> >>,
      << <<".", "c", "s", "s">>,      <<"c", "s", "s">> >>,
      << <<".", "j", "s", "o", "n">>, <<"j", "s", "o", "n">> >>,
      << <<".", "y", "a", "m", "l">>, <<"y", "a", "m", "l">> >>,
      << <<".", "y", "m", "l">>,      <<"y", "a", "m", "l">> >>,
      << <<".", "m", "d">>,           <<"m", "a", "r", "k", "d", "o", "w", "n">> >> }

_get_syntax_for_extension(extension) ==
    LET hits == {e \in extension_map : e[1] = LowerText(extension)}
    IN  IF hits = {} THEN <<>> ELSE (CHOOSE e \in hits : TRUE)[2]

DotEnv == <<".", "e", "n", "v">>

\* lines 74-79: the two tests that make the loop `continue` on a file
SkippedIgnoringCase(file_name) ==
    \/ file_name = DotEnv
    \/ LowerText(splitext(file_name)) \in {LowerText(e) : e \in excluded_extensions}
SkippedKeepingDotEnv(file_name) ==
    splitext(file_name) \in excluded_extensions
Skipped(file_name) ==
    \/ file_name = DotEnv
    \/ splitext(file_name) \in excluded_extensions

\* lines 69-71: dirs after the excluded names are removed from it
PrunedNothing(dirs) == dirs
Pruned(dirs) == SelectSeq(dirs, LAMBDA d : d \notin excluded_directories)

\* os.path.relpath(os.path.join(root, file_name), repo_path)
relative_path(root, file_name) == Join(<<"/">>, Append(root, file_name))

\* lines 87-92: what one file appends to markdown_lines
FileLinesNoBlank(root, file_name) ==
    LET extension == splitext(file_name)
    IN  << <<"#", "#", " ">> \o relative_path(root, file_name) \o <<NL>>,
           Fence \o _get_syntax_for_extension(extension),
           tree[Append(root, file_name)],
           Fence >>
FileLines(root, file_name) ==
    LET extension == splitext(file_name)
    IN  << <<"#", "#", " ">> \o relative_path(root, file_name) \o <<NL>>,
           Fence \o _get_syntax_for_extension(extension),
           tree[Append(root, file_name)],
           Fence \o <<NL>> >>

\* the directory entries os.walk's scandir finds in directory `root`
FilesIn(root) ==
    {p[Len(p)] : p \in {q \in DOMAIN tree :
                          Len(q) = Len(root) + 1 /\ SubSeq(q, 1, Len(root)) = root}}
DirsIn(root) ==
    {p[Len(root) + 1] : p \in {q \in DOMAIN tree :
                          Len(q) > Len(root) + 1 /\ SubSeq(q, 1, Len(root)) = root}}

\* lines 73-92 over the files of one directory, in listing order
RECURSIVE LinesOf(_, _)
LinesOf(root, files) ==
    IF files = <<>> THEN <<>>
    ELSE (IF Skipped(Head(files)) THEN <<>> ELSE FileLines(root, Head(files)))
         \o LinesOf(root, Tail(files))

\* line 82 over the files of one directory, in listing order
LogOf(root, files) ==
    LET kept == SelectSeq(files, LAMBDA f : ~Skipped(f))
    IN  [i \in DOMAIN kept |-> Append(root, kept[i])]

\* line 67, os.walk(repo_path) on something that is no directory: scandir
\* fails, onerror is None, nothing is yielded
WalkError ==
    /\ pc = "walk"
    /\ stack # <<>>
    /\ rootKind # "dir"
    /\ stack' = <<>>
    /\ UNCHANGED <<rootKind, tree, excluded_extensions, excluded_directories,
                   visited, processed, markdown_lines, markdown_content>>
    /\ UNCHANGED <<fileVars, renderVars, pc>>

\* lines 67-92: one iteration of the os.walk loop, the listing order being
\* the filesystem's choice
WalkDir ==
    /\ pc = "walk"
    /\ stack # <<>>
    /\ rootKind = "dir"
    /\ LET root == Head(stack)
       IN  \E dirs \in Perms(DirsIn(root)), files \in Perms(FilesIn(root)) :
             LET kept == Pruned(dirs)
             IN  /\ visited' = Append(visited, root)
                 /\ markdown_lines' = markdown_lines \o LinesOf(root, files)
                 /\ processed' = processed \o LogOf(root, files)
                 /\ stack' = [i \in DOMAIN kept |-> Append(root, kept[i])]
                             \o Tail(stack)
    /\ UNCHANGED <<rootKind, tree, excluded_extensions, excluded_directories,
                   markdown_content>>
    /\ UNCHANGED <<fileVars, renderVars, pc>>

\* line 94
ReturnMarkdown ==
    /\ pc = "walk"
    /\ stack = <<>>
    /\ markdown_content' = JoinNL(markdown_lines)
    /\ pc' = "returned"
    /\ UNCHANGED <<rootKind, tree, excluded_extensions, excluded_directories,
                   stack, visited, processed, markdown_lines>>
    /\ UNCHANGED <<fileVars, renderVars>>

(***************************************************************************)
(* md_to_word.py                                                           *)
(***************************************************************************)
\* f.readlines(): the text cut after each line break, the breaks kept
RECURSIVE readlines(_)
readlines(text) ==
    IF text = <<>> THEN <<>>
    ELSE LET breaks == {i \in DOMAIN text : text[i] = NL}
             first == CHOOSE i \in breaks : \A j \in breaks : i <= j
         IN  IF breaks = {} THEN <<text>>
             ELSE <<SubSeq(text, 1, first)>>
                  \o readlines(SubSeq(text, first + 1, Len(text)))

\* text.rstrip(chars), text.lstrip(chars)
RECURSIVE rstrip(_, _)
rstrip(text, chars) ==
    IF text # <<>> /\ text[Len(text)] \in chars
    THEN rstrip(SubSeq(text, 1, Len(text) - 1), chars)
    ELSE text
RECURSIVE lstrip(_, _)
lstrip(text, chars) ==
    IF text # <<>> /\ text[1] \in chars THEN lstrip(Tail(text), chars) ELSE text

Whitespace == {" ", NL}
\* text.strip()
strip(text) == lstrip(rstrip(text, Whitespace), Whitespace)

\* line 43
line_stripped == rstrip(lines[idx + 1], {NL})

\* line 48: the language of an opening fence
FenceLanguage(line) == strip(SubSeq(line, 4, Len(line)))

\* line 64
HeadingText(line) == strip(lstrip(line, {"#"}))

\* the body of the document: a heading (doc.add_heading), a plain paragraph
\* (doc.add_paragraph) or a CodeBlock paragraph, which carries the arguments
\* of the _add_code_paragraph call that made it and the runs added to it
HeadingEvent(text) ==
    [kind |-> "heading", text |-> text, lang |-> <<>>, runs |-> <<>>]
ParagraphEvent(text) ==
    [kind |-> "paragraph", text |-> text, lang |-> <<>>, runs |-> <<>>]
CodeEvent(text, lang) ==
    [kind |-> "code", text |-> text, lang |-> lang, runs |-> <<>>]

\* get_lexer_by_name finds a lexer for the languages the aggregator tags
KnownLexers == {e[2] : e \in extension_map}

\* lexer.get_tokens(code_text) tokenizes the text as the lexer preprocesses
\* it: a leading byte-order mark removed, line breaks stripped from both
\* ends, one line break appended unless the text ends in one
Preprocessed(text) ==
    LET nobom == IF text # <<>> /\ text[1] = BOM THEN Tail(text) ELSE text
        core == lstrip(rstrip(nobom, {NL}), {NL})
    IN  IF core # <<>> /\ core[Len(core)] = NL THEN core ELSE core \o <<NL>>

TokenTypes == {"Keyword", "String", "Comment", "Other"}

\* lines 85-90
ColorOf(token_type) ==
    CASE token_type = "Keyword" -> <<127, 0, 127>>
      [] token_type = "String" -> <<42, 133, 0>>
      [] token_type = "Comment" -> <<100, 100, 100>>
      [] OTHER -> <<>>

\* lines 27-41: the document is created, the Markdown file read
ReadLines ==
    /\ pc = "convert"
    /\ temp_md # NoFile
    /\ doc' = <<>>
    /\ lines' = readlines(temp_md)
    /\ idx' = 0
    /\ in_code_block' = FALSE
    /\ code_language' = <<>>
    /\ code_buffer' = <<>>
    /\ pc' = "line"
    /\ UNCHANGED <<guessable, code_text, lexer, pending>>
    /\ UNCHANGED <<walkVars, fileVars>>

AtLine == pc = "line" /\ idx < Len(lines)

\* lines 46-50
OpenFence ==
    /\ AtLine
    /\ StartsWith(line_stripped, Fence) /\ ~in_code_block
    /\ in_code_block' = TRUE
    /\ code_language' = FenceLanguage(line_stripped)
    /\ code_buffer' = <<>>
    /\ idx' = idx + 1
    /\ UNCHANGED <<guessable, lines, code_text, lexer, pending, doc, pc>>
    /\ UNCHANGED <<walkVars, fileVars>>

\* lines 51-53, 98, 76: the closing fence calls _add_code_paragraph, which
\* joins the buffer and adds the CodeBlock paragraph
CloseFence ==
    /\ AtLine
    /\ StartsWith(line_stripped, Fence) /\ in_code_block
    /\ code_text' = JoinNL(code_buffer)
    /\ doc' = Append(doc, CodeEvent(JoinNL(code_buffer), code_language))
    /\ lexer' = "unbound"
    /\ pc' = "try"
    /\ UNCHANGED <<guessable, lines, idx, in_code_block, code_language,
                   code_buffer, pending>>
    /\ UNCHANGED <<walkVars, fileVars>>

\* lines 59-60
BufferLine ==
    /\ AtLine
    /\ ~StartsWith(line_stripped, Fence) /\ in_code_block
    /\ code_buffer' = Append(code_buffer, line_stripped)
    /\ idx' = idx + 1
    /\ UNCHANGED <<guessable, lines, in_code_block, code_language, code_text,
                   lexer, pending, doc, pc>>
    /\ UNCHANGED <<walkVars, fileVars>>

\* lines 63-65
Heading ==
    /\ AtLine
    /\ ~StartsWith(line_stripped, Fence) /\ ~in_code_block
    /\ StartsWith(line_stripped, <<"#", "#">>)
    /\ doc' = Append(doc, HeadingEvent(HeadingText(line_stripped)))
    /\ idx' = idx + 1
    /\ UNCHANGED <<guessable, lines, in_code_block, code_language, code_buffer,
                   code_text, lexer, pending, pc>>
    /\ UNCHANGED <<walkVars, fileVars>>

\* lines 66-67
Paragraph ==
    /\ AtLine
    /\ ~StartsWith(line_stripped, Fence) /\ ~in_code_block
    /\ ~StartsWith(line_stripped, <<"#", "#">>)
    /\ doc' = Append(doc, ParagraphEvent(line_stripped))
    /\ idx' = idx + 1
    /\ UNCHANGED <<guessable, lines, in_code_block, code_language, code_buffer,
                   code_text, lexer, pending, pc>>
    /\ UNCHANGED <<walkVars, fileVars>>

\* line 78: get_lexer_by_name for a language, guess_lexer without one; a
\* failure of either is caught by the bare except
TryLexer ==
    /\ pc = "try"
    /\ IF code_language # <<>>
       THEN IF code_language \in KnownLexers
            THEN lexer' = "by_name" /\ pc' = "tokens"
            ELSE lexer' = "unbound" /\ pc' = "except"
       ELSE IF guessable
            THEN lexer' = "guessed" /\ pc' = "tokens"
            ELSE lexer' = "unbound" /\ pc' = "except"
    /\ pending' = IF pc' = "tokens" THEN Preprocessed(code_text) ELSE <<>>
    /\ UNCHANGED <<guessable, lines, idx, in_code_block, code_language,
                   code_buffer, code_text, doc>>
    /\ UNCHANGED <<walkVars, fileVars>>

\* line 80: guess_lexer in the except clause; its failure is not caught
\* and leaves _highlight_code_paragraph and convert_markdown_to_docx
ExceptGuess ==
    /\ pc = "except"
    /\ IF guessable
       THEN lexer' = "guessed" /\ pc' = "tokens"
       ELSE lexer' = "failed" /\ pc' = "raised"
    /\ pending' = IF pc' = "tokens" THEN Preprocessed(code_text) ELSE <<>>
    /\ UNCHANGED <<guessable, lines, idx, in_code_block, code_language,
                   code_buffer, code_text, doc>>
    /\ UNCHANGED <<walkVars, fileVars>>

\* lines 84-90: the run made of one token
RunWithoutLineBreak(token_type, token_value) ==
    [text |-> rstrip(token_value, {NL}), color |-> ColorOf(token_type)]
RunOf(token_type, token_value) ==
    [text |-> token_value, color |-> ColorOf(token_type)]

\* lines 83-90: the next token, whose extent and type are the lexer's
\* choice, becomes a run of the paragraph
AddRun ==
    /\ pc = "tokens"
    /\ pending # <<>>
    /\ \E n \in 1..Len(pending), token_type \in TokenTypes :
          LET run == RunOf(token_type, SubSeq(pending, 1, n))
              paragraph == doc[Len(doc)]
          IN  /\ doc' = [doc EXCEPT ![Len(doc)] =
                            [paragraph EXCEPT !.runs = Append(paragraph.runs, run)]]
              /\ pending' = SubSeq(pending, n + 1, Len(pending))
    /\ UNCHANGED <<guessable, lines, idx, in_code_block, code_language,
                   code_buffer, code_text, lexer, pc>>
    /\ UNCHANGED <<walkVars, fileVars>>

\* lines 92, 99, 54-57
ReturnParagraph ==
    /\ pc = "tokens"
    /\ pending = <<>>
    /\ in_code_block' = FALSE
    /\ code_language' = <<>>
    /\ code_buffer' = <<>>
    /\ idx' = idx + 1
    /\ pc' = "line"
    /\ UNCHANGED <<guessable, lines, code_text, lexer, pending, doc>>
    /\ UNCHANGED <<walkVars, fileVars>>

\* line 69
Save ==
    /\ pc = "line"
    /\ idx = Len(lines)
    /\ output_docx' = doc
    /\ pc' = "saved"
    /\ UNCHANGED temp_md
    /\ UNCHANGED <<walkVars, renderVars>>

(***************************************************************************)
(* convert_repo_to_word.py                                                 *)
(***************************************************************************)
\* lines 37-38
WriteTemp ==
    /\ pc = "returned"
    /\ temp_md' = markdown_content
    /\ pc' = "convert"
    /\ UNCHANGED output_docx
    /\ UNCHANGED <<walkVars, renderVars>>

\* line 42
RemoveTemp ==
    /\ pc = "saved"
    /\ temp_md' = NoFile
    /\ pc' = "done"
    /\ UNCHANGED output_docx
    /\ UNCHANGED <<walkVars, renderVars>>

(***************************************************************************)
(* Inputs of create_markdown_from_repo                                     *)
(***************************************************************************)
MaxFiles == 2

NameAPy == <<"a", ".", "p", "y">>
NameUpper == <<"A", ".", "P", "Y">>
NameB == <<"b">>
DirD == <<"d">>
DirG == <<"g">>

FileNames == {NameAPy, NameUpper, DotEnv, NameB}
DirPaths == {<<>>, <<DirD>>, <<DirG>>, <<DirG, DirD>>, <<DirD, DirG>>, <<DirG, DirD, DirD>>}
FilePaths == {Append(d, n) : d \in DirPaths, n \in FileNames}

ContentOf(p) == IF p[Len(p)] = NameB THEN <<>> ELSE <<"x">>

WalkTrees ==
    {[p \in S |-> ContentOf(p)] :
        S \in {S \in SUBSET FilePaths : Cardinality(S) <= MaxFiles}}

ExtensionLists == {{}, {<<".", "p", "y">>}, {<<".", "P", "Y">>}, {<<>>, <<".", "p", "y">>}}
DirectoryLists == {{}, {DirG}, {DirD, DirG}}

RenderIdle ==
    /\ guessable = TRUE
    /\ lines = <<>>
    /\ idx = 0
    /\ in_code_block = FALSE
    /\ code_language = <<>>
    /\ code_buffer = <<>>
    /\ code_text = NoText
    /\ lexer = "unbound"
    /\ pending = <<>>
    /\ doc = <<>>

InitWalk ==
    /\ rootKind \in {"dir", "file", "missing"}
    /\ tree \in WalkTrees
    /\ rootKind # "dir" => DOMAIN tree = {}
    /\ excluded_extensions \in ExtensionLists
    /\ excluded_directories \in DirectoryLists
    /\ stack = << <<>> >>
    /\ visited = <<>>
    /\ processed = <<>>
    /\ markdown_lines = <<>>
    /\ markdown_content = NoText
    /\ temp_md = NoFile
    /\ output_docx = NoFile
    /\ RenderIdle
    /\ pc = "walk"

NextWalk == WalkError \/ WalkDir \/ ReturnMarkdown

SpecWalk == InitWalk /\ [][NextWalk]_vars

(***************************************************************************)
(* Properties of create_markdown_from_repo                                 *)
(***************************************************************************)
FileName(p) == p[Len(p)]
UnderExcluded(p) == \E i \in 1..(Len(p) - 1) : p[i] \in excluded_directories

\* the files of the tree that match no exclusion rule and are not `.env`
IncludedFiles ==
    {p \in DOMAIN tree : /\ ~UnderExcluded(p)
                         /\ FileName(p) # DotEnv
                         /\ splitext(FileName(p)) \notin excluded_extensions}

HeadingLine(p) == <<"#", "#", " ">> \o Join(<<"/">>, p) \o <<NL>>
EmittedHeadings ==
    {markdown_lines[4 * k - 3] : k \in 1..(Len(markdown_lines) \div 4)}

\* C1: when create_markdown_from_repo returns, it has emitted one file
\* section for each file of the tree that is not under an excluded
\* directory, has no excluded extension and is not named `.env`, and no
\* other section, whatever order the filesystem listed the entries in.
C1_ExactlyIncludedFiles ==
    pc = "returned" =>
        /\ Len(markdown_lines) = 4 * Cardinality(IncludedFiles)
        /\ EmittedHeadings = {HeadingLine(p) : p \in IncludedFiles}
        /\ Range(processed) = IncludedFiles

C1_Witness ==
    /\ pc = "returned"
    /\ IncludedFiles # {}
    /\ \E p \in DOMAIN tree : FileName(p) = DotEnv /\ ~UnderExcluded(p)
    /\ \E p \in DOMAIN tree : UnderExcluded(p) \/ splitext(FileName(p)) \in excluded_extensions

\* C2: no directory whose path holds an excluded name is ever yielded by
\* the walk, and no file below such a directory is ever read or emitted,
\* at any depth and whatever the file's own extension.
C2_ExcludedSubtreePruned ==
    /\ \A i \in DOMAIN visited :
          \A j \in DOMAIN visited[i] : visited[i][j] \notin excluded_directories
    /\ \A i \in DOMAIN processed : ~UnderExcluded(processed[i])
    /\ \A p \in DOMAIN tree : UnderExcluded(p) => HeadingLine(p) \notin Range(markdown_lines)

C2_Witness ==
    /\ pc = "returned"
    /\ \E p \in DOMAIN tree :
          /\ Len(p) >= 3
          /\ p[1] \in excluded_directories
          /\ p[2] \notin excluded_directories
          /\ ~Skipped(FileName(p))
    /\ processed # <<>>

SameIgnoringCase(ext) ==
    LowerText(ext) \in {LowerText(e) : e \in excluded_extensions}

\* C3 as stated: a file whose extension is in excluded_extensions when
\* compared case-insensitively is not emitted.
C3_CaseInsensitiveSkip ==
    pc = "returned" =>
        \A p \in DOMAIN tree :
            SameIgnoringCase(splitext(FileName(p))) => p \notin Range(processed)

\* C3 amended: the comparison is exact. A file whose extension is listed
\* letter for letter is not emitted; a file whose extension is not listed
\* letter for letter (also when it differs from a listed one only in case)
\* is emitted, unless it is named `.env` or lies under an excluded directory.
C3_ExactSkip ==
    pc = "returned" =>
        \A p \in DOMAIN tree :
            /\ splitext(FileName(p)) \in excluded_extensions
                  => p \notin Range(processed)
            /\ (/\ splitext(FileName(p)) \notin excluded_extensions
                /\ FileName(p) # DotEnv
                /\ ~UnderExcluded(p))
                  => /\ p \in Range(processed)
                     /\ HeadingLine(p) \in Range(markdown_lines)

C3_Witness ==
    /\ pc = "returned"
    /\ \E p \in Range(processed) :
          /\ SameIgnoringCase(splitext(FileName(p)))
          /\ splitext(FileName(p)) \notin excluded_extensions

\* the segment the specification gives for one file
Segment(p) ==
    <<"#", "#", " ">> \o Join(<<"/">>, p) \o <<NL, NL>>
    \o Fence \o _get_syntax_for_extension(splitext(FileName(p))) \o <<NL>>
    \o tree[p] \o <<NL>>
    \o Fence \o <<NL, NL>>

\* C4 as stated: the returned text is the concatenation of one full segment
\* per file, the last file's included.
C4_EverySegmentFull ==
    pc = "returned" =>
        markdown_content = Concat([i \in DOMAIN processed |-> Segment(processed[i])])

\* C4 amended: the returned text is the concatenation, in traversal order,
\* of one segment per file; every segment but the last is the full one, the
\* last lacks the final line break (no blank separator line follows it),
\* and the text is empty when no file is included.
C4_LastSegmentShort ==
    pc = "returned" =>
        LET n == Len(processed)
            full == Concat([i \in DOMAIN processed |-> Segment(processed[i])])
        IN  markdown_content = IF n = 0 THEN <<>> ELSE SubSeq(full, 1, Len(full) - 1)

C4_Witness ==
    /\ pc = "returned"
    /\ Len(processed) = 2
    /\ \E i \in DOMAIN processed : tree[processed[i]] = <<>>
    /\ \E i \in DOMAIN processed : _get_syntax_for_extension(splitext(FileName(processed[i]))) # <<>>

(***************************************************************************)
(* Inputs of convert_markdown_to_docx                                      *)
(***************************************************************************)
MaxLines == 3

LineBlank == <<>>
LineX == <<"x">>
LineFenceC == Fence \o <<" ", "c", " ">>
LineFenceZ == Fence \o <<"z">>
LineHeading == <<"#", "#", " ", "T", " ">>

RenderLines == {LineBlank, LineX, Fence, LineFenceC, LineFenceZ, LineHeading}

RECURSIVE SeqsUpTo(_, _)
SeqsUpTo(S, n) ==
    IF n = 0 THEN {<<>>}
    ELSE LET shorter == SeqsUpTo(S, n - 1)
         IN  shorter \cup {Append(s, x) : s \in shorter, x \in S}

\* Markdown files of at most MaxLines lines, the last with or without its
\* line break
MarkdownTexts ==
    LET seqs == SeqsUpTo(RenderLines, MaxLines)
    IN  {JoinNL(ls) : ls \in seqs} \cup {JoinNL(ls) \o <<NL>> : ls \in seqs}

WalkIdle ==
    /\ rootKind = "dir"
    /\ tree = <<>>
    /\ excluded_extensions = {}
    /\ excluded_directories = {}
    /\ stack = <<>>
    /\ visited = <<>>
    /\ processed = <<>>
    /\ markdown_lines = <<>>
    /\ markdown_content = NoText

InitRender ==
    /\ WalkIdle
    /\ temp_md \in MarkdownTexts
    /\ output_docx = NoFile
    /\ guessable \in BOOLEAN
    /\ lines = <<>>
    /\ idx = 0
    /\ in_code_block = FALSE
    /\ code_language = <<>>
    /\ code_buffer = <<>>
    /\ code_text = NoText
    /\ lexer = "unbound"
    /\ pending = <<>>
    /\ doc = <<>>
    /\ pc = "convert"

NextRender ==
    \/ ReadLines
    \/ OpenFence
    \/ CloseFence
    \/ BufferLine
    \/ Heading
    \/ Paragraph
    \/ TryLexer
    \/ ExceptGuess
    \/ AddRun
    \/ ReturnParagraph
    \/ Save

SpecRender == InitRender /\ [][NextRender]_vars

(***************************************************************************)
(* Inputs of _highlight_code_paragraph: one fenced block, its language and *)
(* its lines drawn from small sets                                         *)
(***************************************************************************)
MaxCodeLines == 2

CodeLines == {<<>>, <<"x">>, <<BOM>>}
CodeLanguages == {<<>>, <<"c">>, <<"z">>}

OneBlockTexts ==
    {JoinNL(<<Fence \o lang>> \o buffer \o <<Fence>>) \o <<NL>> :
        lang \in CodeLanguages, buffer \in SeqsUpTo(CodeLines, MaxCodeLines)}

InitHighlight ==
    /\ WalkIdle
    /\ temp_md \in OneBlockTexts
    /\ output_docx = NoFile
    /\ guessable \in BOOLEAN
    /\ lines = <<>>
    /\ idx = 0
    /\ in_code_block = FALSE
    /\ code_language = <<>>
    /\ code_buffer = <<>>
    /\ code_text = NoText
    /\ lexer = "unbound"
    /\ pending = <<>>
    /\ doc = <<>>
    /\ pc = "convert"

NextHighlight ==
    \/ ReadLines
    \/ OpenFence
    \/ BufferLine
    \/ CloseFence
    \/ TryLexer
    \/ ExceptGuess
    \/ AddRun
    \/ ReturnParagraph
    \/ Save

SpecHighlight == InitHighlight /\ [][NextHighlight]_vars

(***************************************************************************)
(* Inputs of convert_repo_to_word                                          *)
(***************************************************************************)
NameAC == <<"a", ".", "c">>
PipeFilePaths == {<<NameAC>>, <<NameB>>}
PipeContents(p) == IF p = <<NameB>> THEN {<<"x">>, Fence} ELSE {<<"x">>}

PipeTrees ==
    UNION {{t \in [S -> UNION {PipeContents(p) : p \in S}] :
                \A p \in S : t[p] \in PipeContents(p)} :
        S \in {S \in SUBSET PipeFilePaths : Cardinality(S) <= MaxFiles}}

InitPipeline ==
    /\ rootKind \in {"dir", "file", "missing"}
    /\ tree \in PipeTrees
    /\ rootKind # "dir" => DOMAIN tree = {}
    /\ excluded_extensions = {}
    /\ excluded_directories = {}
    /\ stack = << <<>> >>
    /\ visited = <<>>
    /\ processed = <<>>
    /\ markdown_lines = <<>>
    /\ markdown_content = NoText
    /\ temp_md = NoFile
    /\ output_docx = NoFile
    /\ guessable \in BOOLEAN
    /\ lines = <<>>
    /\ idx = 0
    /\ in_code_block = FALSE
    /\ code_language = <<>>
    /\ code_buffer = <<>>
    /\ code_text = NoText
    /\ lexer = "unbound"
    /\ pending = <<>>
    /\ doc = <<>>
    /\ pc = "walk"

NextPipeline ==
    \/ WalkError
    \/ WalkDir
    \/ ReturnMarkdown
    \/ WriteTemp
    \/ ReadLines
    \/ OpenFence
    \/ CloseFence
    \/ BufferLine
    \/ Heading
    \/ Paragraph
    \/ TryLexer
    \/ ExceptGuess
    \/ AddRun
    \/ ReturnParagraph
    \/ Save
    \/ RemoveTemp

SpecPipeline == InitPipeline /\ [][NextPipeline]_vars

(***************************************************************************)
(* Properties of convert_markdown_to_docx, _highlight_code_paragraph and   *)
(* convert_repo_to_word                                                    *)
(***************************************************************************)
\* C5: when repo_path references no existing directory, no document is
\* returned, and neither temp_output.md nor the output .docx is created.
C5_NotADirectoryFails ==
    rootKind # "dir" =>
        /\ markdown_content = NoText
        /\ temp_md = NoFile
        /\ output_docx = NoFile

\* C6: when the input ends inside a code block, the lines buffered since
\* its opening fence are in the saved document, as its last code block.
C6_UnterminatedBlockFlushed ==
    (pc = "saved" /\ in_code_block) =>
        /\ output_docx # <<>>
        /\ output_docx[Len(output_docx)].kind = "code"
        /\ output_docx[Len(output_docx)].text = JoinNL(code_buffer)
        /\ output_docx[Len(output_docx)].lang = code_language

\* C7: when lexer resolution has failed for a block, the fallback's failure
\* included, the block holds a single unstyled run with its full text and
\* the conversion goes on (it is not left with the document unsaved).
C7_FailureContained ==
    lexer = "failed" =>
        /\ pc # "raised"
        /\ doc[Len(doc)].runs = <<[text |-> code_text, color |-> <<>>]>>

RunsText(paragraph) ==
    Concat([i \in DOMAIN paragraph.runs |-> paragraph.runs[i].text])

\* no block is being highlighted
BetweenBlocks == pc \in {"line", "saved", "raised"}

NLs(n) == [i \in 1..n |-> NL]

\* `core` is `text` without its leading byte-order mark and without the
\* line breaks at its two ends
IsCoreOf(core, text) ==
    LET nobom == IF text # <<>> /\ text[1] = BOM THEN Tail(text) ELSE text
    IN  /\ core = <<>> \/ (core[1] # NL /\ core[Len(core)] # NL)
        /\ \E a, b \in 0..Len(nobom) : nobom = NLs(a) \o core \o NLs(b)

Skeleton(d) == [i \in DOMAIN d |-> [kind |-> d[i].kind, text |-> d[i].text, lang |-> d[i].lang]]
Structural(d) == SelectSeq(Skeleton(d), LAMBDA e : e.kind # "paragraph")

\* C9: the document rendered from the aggregated Markdown holds, per file
\* and in file order, one heading with the file's relative path followed by
\* one code block with the file's hint and content, and no other code block.
C9_OneBlockPerFile ==
    pc = "done" =>
        /\ Len(Structural(output_docx)) = 2 * Len(processed)
        /\ \A k \in DOMAIN processed :
              /\ Structural(output_docx)[2 * k - 1] =
                    [kind |-> "heading", text |-> Join(<<"/">>, processed[k]), lang |-> <<>>]
              /\ Structural(output_docx)[2 * k] =
                    [kind |-> "code", text |-> tree[processed[k]],
                     lang |-> _get_syntax_for_extension(splitext(FileName(processed[k])))]

\* the renderer of the specification, as a function of the lines read
RefStart == [inCode |-> FALSE, hint |-> <<>>, buffer |-> <<>>, events |-> <<>>]
RefStep(s, line) ==
    IF ~s.inCode
    THEN IF StartsWith(line, Fence)
         THEN [s EXCEPT !.inCode = TRUE,
                        !.hint = strip(SubSeq(line, 4, Len(line))),
                        !.buffer = <<>>]
         ELSE IF StartsWith(line, <<"#", "#">>)
         THEN [s EXCEPT !.events = Append(@,
                  [kind |-> "heading", text |-> strip(lstrip(line, {"#"})), lang |-> <<>>])]
         ELSE [s EXCEPT !.events = Append(@,
                  [kind |-> "paragraph", text |-> line, lang |-> <<>>])]
    ELSE IF StartsWith(line, Fence)
         THEN [inCode |-> FALSE, hint |-> <<>>, buffer |-> <<>>,
               events |-> Append(s.events,
                  [kind |-> "code", text |-> JoinNL(s.buffer), lang |-> s.hint])]
         ELSE [s EXCEPT !.buffer = Append(@, line)]
RECURSIVE RefRun(_)
RefRun(n) ==
    IF n = 0 THEN RefStart
    ELSE RefStep(RefRun(n - 1), rstrip(lines[n], {NL}))

\* the lines whose handling is over, by a return or by an exception
Handled == IF pc = "raised" THEN idx + 1 ELSE idx

\* C10: after every line handled, the events emitted so far and the state
\* of the renderer are those of the specification's state machine run over
\* the lines handled; a closing fence has emitted its code block when the
\* highlighter is entered; and the pass ends only when every line is handled.
C10_LineStateMachine ==
    /\ pc \in {"line", "saved", "raised"} =>
          /\ Skeleton(doc) = RefRun(Handled).events
          /\ in_code_block = RefRun(Handled).inCode
          /\ code_language = RefRun(Handled).hint
          /\ code_buffer = RefRun(Handled).buffer
    /\ pc \in {"try", "except", "tokens"} =>
          Skeleton(doc) = RefRun(idx + 1).events
    /\ pc \in {"saved", "raised"} => Handled = Len(lines)

====
